---- MODULE Spec2Model ----
(***************************************************************************)
(* Model of the ev-alert-web detection-to-notification pipeline            *)
(* (functions/index.js: getPublicUrl, alertBlockedCharger) and of the      *)
(* client's plate registration (App.js: normalizePlate, savePlate).        *)
(*                                                                         *)
(* JavaScript strings that the code takes apart (plates, addresses) are    *)
(* sequences: a plate is a sequence of one-character strings, an address a *)
(* sequence of tokens.  Strings the code only copies are TLA+ strings.     *)
(* Every awaited call is one step of the handler: the action named after   *)
(* the call is the call's return (or rejection) together with the          *)
(* synchronous code that follows it up to the next await.                  *)
(***************************************************************************)
EXTENDS Integers, Sequences, FiniteSets, TLC

VARIABLES
    event,               \* the triggering event and process.env: [hasData, data, plateApiKey]
    run,                 \* the handler invocation: position, locals, caught error
    storage,             \* the object the report's gs:// address names: [exists, public]
    userPlates,          \* registry collection "userPlates": uid -> document or NoDoc
    sent,                \* messages accepted by admin.messaging().send
    alerts,              \* collection "alerts"
    unregisteredPlates,  \* collection "unregisteredPlates"
    failedDetections,    \* collection "failedDetections"
    calls,               \* external calls issued by the run, per collaborator
    norm,                \* normalisation workbench: inputs and results of both normalisers
    resolver,            \* a call of getPublicUrl on its own: position, argument, result
    other,               \* a second delivery of the same event: the handler not shown in run
    subscriptions,       \* collection "subscriptions": uid -> document or NoSubscription
    topicMembers,        \* the registration tokens subscribed to topic charger_alerts
    callable             \* the manageChargerSubscription call in progress and its outcome

\* what the pipeline's and the client's actions leave alone
aside == <<resolver, other, subscriptions, topicMembers, callable>>

vars == <<event, run, storage, userPlates, sent, alerts, unregisteredPlates,
          failedDetections, calls, norm, aside>>

-----------------------------------------------------------------------------
(* JavaScript values *)

\* undefined, where a copied string is expected
Undefined == "undefined"
\* undefined, where a plate or an address (a sequence) is expected
UndefinedSeq == <<"undefined">>
\* undefined, where a number is expected (scores are percentages >= 0)
UndefinedNum == -1
\* null
Null == "null"

\* JS truthiness of a copied string: undefined and "" are falsy
Falsy(v) == v = Undefined \/ v = ""
\* JS truthiness of a sequence-modelled string: undefined and "" are falsy
FalsySeq(s) == s = UndefinedSeq \/ s = << >>
\* a || b
OrElse(v, d) == IF Falsy(v) THEN d ELSE v

-----------------------------------------------------------------------------
(* Plate normalisation *)

\* the bound on the length of the plate strings the normalisers are tried on
MaxPlateLen == 3

Whitespace == {" ", "\t"}

ToUpperChar(c) ==
    CASE c = "a" -> "A"
      [] c = "b" -> "B"
      [] c = "c" -> "C"
      [] OTHER -> c

\* String.prototype.toUpperCase
ToUpperCase(s) == [i \in 1..Len(s) |-> ToUpperChar(s[i])]

\* s.replace(/\s/g, ""): every whitespace character is replaced by nothing
RECURSIVE ReplaceEachSpace(_)
ReplaceEachSpace(s) ==
    IF s = << >> THEN << >>
    ELSE IF Head(s) \in Whitespace THEN ReplaceEachSpace(Tail(s))
    ELSE <<Head(s)>> \o ReplaceEachSpace(Tail(s))

\* s.replace(/\s/, ""): without the g flag only the first match is replaced
RECURSIVE ReplaceFirstSpace(_)
ReplaceFirstSpace(s) ==
    IF s = << >> THEN << >>
    ELSE IF Head(s) \in Whitespace THEN Tail(s)
    ELSE <<Head(s)>> \o ReplaceFirstSpace(Tail(s))

\* length of the longest prefix of s made of whitespace
RECURSIVE SpaceRun(_)
SpaceRun(s) ==
    IF s = << >> \/ Head(s) \notin Whitespace THEN 0 ELSE 1 + SpaceRun(Tail(s))

\* s.replace(/\s+/g, ""): every maximal run of whitespace is replaced by nothing
RECURSIVE ReplaceSpaceRuns(_)
ReplaceSpaceRuns(s) ==
    IF s = << >> THEN << >>
    ELSE IF SpaceRun(s) > 0 THEN ReplaceSpaceRuns(SubSeq(s, SpaceRun(s) + 1, Len(s)))
    ELSE <<Head(s)>> \o ReplaceSpaceRuns(Tail(s))

DetectedPlateFirstOnly(p) == ReplaceFirstSpace(ToUpperCase(p))

\* index.js:107  results[0].plate.toUpperCase().replace(/\s/g, "")
DetectedPlate(p) == ReplaceEachSpace(ToUpperCase(p))

normalizePlateKeepCase(p) == ReplaceSpaceRuns(IF FalsySeq(p) THEN << >> ELSE p)

\* App.js normalizePlate: (p || "").toUpperCase().replace(/\s+/g, "")
normalizePlate(p) == ReplaceSpaceRuns(ToUpperCase(IF FalsySeq(p) THEN << >> ELSE p))

-----------------------------------------------------------------------------
(* Addresses and getPublicUrl's synchronous part *)

\* gsUrl.startsWith('gs://')
StartsWithGs(u) == Len(u) > 0 /\ u[1] = "gs://"

\* gsUrl.replace('gs://', ''): the first occurrence is removed, if there is one
ReplaceGs(u) ==
    IF \E i \in 1..Len(u) : u[i] = "gs://"
    THEN LET k == CHOOSE i \in 1..Len(u) : u[i] = "gs://" /\ \A j \in 1..(i - 1) : u[j] # "gs://"
         IN  SubSeq(u, 1, k - 1) \o SubSeq(u, k + 1, Len(u))
    ELSE u

\* gsPath.indexOf('/'), 0-based, -1 when there is none
IndexOfSlash(s) ==
    IF \E i \in 1..Len(s) : s[i] = "/"
    THEN (CHOOSE i \in 1..Len(s) : s[i] = "/" /\ \A j \in 1..(i - 1) : s[j] # "/") - 1
    ELSE -1

\* gsPath.substring(0, firstSlash)
BucketName(u) == SubSeq(ReplaceGs(u), 1, IndexOfSlash(ReplaceGs(u)))

\* gsPath.substring(firstSlash + 1)
FilePath(u) == SubSeq(ReplaceGs(u), IndexOfSlash(ReplaceGs(u)) + 2, Len(ReplaceGs(u)))

EncodeToken(t) ==
    CASE t = "/" -> "%2F"
      [] t = "my pic.jpg" -> "my%20pic.jpg"
      [] OTHER -> t

\* encodeURIComponent
EncodeURIComponent(s) == [i \in 1..Len(s) |-> EncodeToken(s[i])]

\* an object found public already handed back as the gs:// address
PublicUrlOnce(u) ==
    IF storage.public THEN u
    ELSE <<"https://", "storage.googleapis.com", "/">> \o BucketName(u) \o <<"/">>
             \o EncodeURIComponent(FilePath(u))

\* `https://storage.googleapis.com/${bucketName}/${encodeURIComponent(filePath)}`
PublicUrl(u) ==
    <<"https://", "storage.googleapis.com", "/">> \o BucketName(u) \o <<"/">>
        \o EncodeURIComponent(FilePath(u))

-----------------------------------------------------------------------------
(* Errors *)

NoError == [message |-> Undefined, hasResponse |-> FALSE, body |-> Undefined]

\* an Error thrown by the code or by a client library, without an HTTP response
PlainError(msg) == [message |-> msg, hasResponse |-> FALSE, body |-> Undefined]

\* an axios error for a non-2xx answer: error.response.data is the upstream body
HttpError(msg, body) == [message |-> msg, hasResponse |-> TRUE, body |-> body]

ErrorDetailsDropped(error) == Null

\* error.response?.data || null
ErrorDetails(error) ==
    IF error.hasResponse /\ ~Falsy(error.body) THEN error.body ELSE Null

-----------------------------------------------------------------------------
(* The documents and the message the handler builds *)

\* confidence.toString(), for the scores of the model (percentages)
NumToString(n) ==
    CASE n = 91 -> "0.91"
      [] n = 20 -> "0.2"
      [] OTHER -> "NaN"

\* index.js:143-173 (the platform hint blocks are constants and left out)
Message(data, detectedPlate, ownerId, confidence) ==
    [ title |-> "Charger Occupied",
      body |-> <<"Charger ", OrElse(data.chargerId, "Unknown"), " is now used by ",
                 detectedPlate>>,
      data |-> [ type |-> "charger_alert",
                 plate |-> detectedPlate,
                 ownerId |-> ownerId,
                 chargerId |-> OrElse(data.chargerId, "unknown"),
                 location |-> OrElse(data.location, ""),
                 confidence |-> NumToString(confidence),
                 click_action |-> "FLUTTER_NOTIFICATION_CLICK" ],
      topic |-> "charger_alerts" ]

AlertRecordToReporter(data, ownerId, detectedPlate, imageUrl, confidence) ==
    [ recipientId |-> OrElse(data.reportedBy, "anonymous"),
      recipientPlate |-> detectedPlate,
      plate |-> detectedPlate,
      location |-> OrElse(data.location, "Unknown"),
      chargerId |-> OrElse(data.chargerId, "unknown"),
      reportedBy |-> OrElse(data.reportedBy, "anonymous"),
      imageUrl |-> data.imageUrl,
      publicImageUrl |-> imageUrl,
      confidence |-> confidence,
      status |-> "sent",
      notificationMethod |-> "topic",
      topic |-> "charger_alerts" ]

\* index.js:179-193
AlertRecord(data, ownerId, detectedPlate, imageUrl, confidence) ==
    [ recipientId |-> ownerId,
      recipientPlate |-> detectedPlate,
      plate |-> detectedPlate,
      location |-> OrElse(data.location, "Unknown"),
      chargerId |-> OrElse(data.chargerId, "unknown"),
      reportedBy |-> OrElse(data.reportedBy, "anonymous"),
      imageUrl |-> data.imageUrl,
      publicImageUrl |-> imageUrl,
      confidence |-> confidence,
      status |-> "sent",
      notificationMethod |-> "topic",
      topic |-> "charger_alerts" ]

\* index.js:124-132
UnregisteredPlateRecord(data, detectedPlate, confidence) ==
    [ plate |-> detectedPlate,
      imageUrl |-> data.imageUrl,
      location |-> data.location,
      chargerId |-> data.chargerId,
      reportedBy |-> data.reportedBy,
      confidence |-> confidence ]

\* index.js:210-217
FailedDetectionRecord(data, error) ==
    [ imageUrl |-> data.imageUrl,
      chargerId |-> data.chargerId,
      location |-> data.location,
      error |-> error.message,
      errorDetails |-> ErrorDetails(error) ]

-----------------------------------------------------------------------------
(* The inputs the model draws from *)

Users == {"U1", "U2"}

\* what a user types into the plate box (App.js `plate` state)
TypedPlates ==
    { <<"a", "b", "1">>, <<"A", "B", " ", "1">>, <<"c">>, <<" ">>, << >> }

\* data.imageUrl of the created chargerUsage document
ImageUrls ==
    { UndefinedSeq, << >>,
      <<"gs://", "bkt", "/", "x.jpg">>,
      <<"gs://", "bkt", "/", "up", "/", "my pic.jpg">>,
      <<"https://", "host", "/", "x.jpg">> }

NoReport ==
    [imageUrl |-> UndefinedSeq, chargerId |-> Undefined, location |-> Undefined,
     reportedBy |-> Undefined]

Reports ==
    [imageUrl : ImageUrls, chargerId : {Undefined, "CH1"}, location : {Undefined, "Bay 4"},
     reportedBy : {Undefined, "U9"}]

\* event.data?.data() and process.env.PLATE_RECOGNIZER_KEY
Events ==
    { [hasData |-> FALSE, data |-> NoReport, plateApiKey |-> k] : k \in {Undefined, "KEY"} }
    \cup
    { [hasData |-> TRUE, data |-> d, plateApiKey |-> k] : d \in Reports, k \in {Undefined, "KEY"} }

\* one element of response.data.results
Candidates ==
    [plate : {<<"a", "b", " ", "1">>, <<"c">>, UndefinedSeq}, score : {91, UndefinedNum}]

WellFormed == {c \in Candidates : c.plate # UndefinedSeq /\ c.score # UndefinedNum}

ResultLists ==
    {<< >>} \cup {<<c>> : c \in Candidates}
    \cup {<<c, d>> : c \in WellFormed, d \in {[plate |-> <<"c">>, score |-> 20]}}

\* what awaiting axios.post can produce: a 2xx response, or a rejection (for the
\* 30 s timeout, for a transport failure, for a non-2xx answer with its body)
Responses ==
    { [ok |-> TRUE, hasData |-> FALSE, hasResults |-> FALSE, results |-> << >>, error |-> NoError],
      [ok |-> TRUE, hasData |-> TRUE, hasResults |-> FALSE, results |-> << >>, error |-> NoError] }
    \cup
    { [ok |-> TRUE, hasData |-> TRUE, hasResults |-> TRUE, results |-> l, error |-> NoError] :
        l \in ResultLists }
    \cup
    { [ok |-> FALSE, hasData |-> FALSE, hasResults |-> FALSE, results |-> << >>, error |-> e] :
        e \in { PlainError("timeout of 30000ms exceeded"),
                HttpError("Request failed with status code 403", "invalid token"),
                HttpError("Request failed with status code 502", "") } }

NoResponse ==
    [ok |-> FALSE, hasData |-> FALSE, hasResults |-> FALSE, results |-> << >>, error |-> NoError]

-----------------------------------------------------------------------------
(* The registry *)

NoDoc == [userId |-> Undefined, plate |-> UndefinedSeq]

\* index.js:115-118  where("plate", "==", detectedPlate).limit(1).get(): the
\* snapshots the query can return (any one of the matching documents)
PlateQuery(reg, plate) ==
    IF \E u \in Users : reg[u] # NoDoc /\ reg[u].plate = plate
    THEN { <<reg[u]>> : u \in {v \in Users : reg[v] # NoDoc /\ reg[v].plate = plate} }
    ELSE { << >> }

-----------------------------------------------------------------------------
(* The handler's decisions *)

GuardFailsWithoutKey(ev) == ~ev.hasData \/ FalsySeq(ev.data.imageUrl)

\* index.js:67  !data || !data.imageUrl || !plateApiKey
GuardFails(ev) == ~ev.hasData \/ FalsySeq(ev.data.imageUrl) \/ Falsy(ev.plateApiKey)

\* index.js:101  response.data?.results || []
ResultsOf(resp) == IF resp.hasData /\ resp.hasResults THEN resp.results ELSE << >>

NoPlateDetectedNever(results) == FALSE

\* index.js:102  results.length === 0
NoPlateDetected(results) == Len(results) = 0

QueryEmptyNever(docs) == FALSE

\* index.js:120  plateQuery.empty
QueryEmpty(docs) == Len(docs) = 0

-----------------------------------------------------------------------------
(* The handler's position and locals *)

Outcomes ==
    {"none", "GuardSkip", "NoPlate", "Logged", "UnregisteredLogged", "FailedLogged", "Escaped"}

NewRun ==
    [ pc |-> "start",             \* the await the handler is suspended at
      imageUrl |-> UndefinedSeq,  \* let imageUrl
      response |-> NoResponse,    \* what axios.post produced
      results |-> << >>,          \* const results
      detectedPlate |-> UndefinedSeq,
      confidence |-> UndefinedNum,
      queried |-> << >>,          \* plateQuery.docs
      ownerId |-> Undefined,
      error |-> NoError,          \* the error the catch block received
      errorAt |-> "none",         \* the step that threw it
      outcome |-> "none",
      escaped |-> NoError ]       \* the error the handler's promise rejected with

NoCalls == [storage |-> 0, recognition |-> 0, registry |-> 0, send |-> 0, write |-> 0]

\* the send not awaited: the alerts write is issued along with it
IssueSendUnawaited(c, pc) ==
    CASE pc \in {"exists", "makePublic"} -> [c EXCEPT !.storage = @ + 1]
      [] pc = "recognize" -> [c EXCEPT !.recognition = @ + 1]
      [] pc = "lookup" -> [c EXCEPT !.registry = @ + 1]
      [] pc = "send" -> [c EXCEPT !.send = @ + 1, !.write = @ + 1]
      [] pc \in {"logUnregistered", "logFailed"} -> [c EXCEPT !.write = @ + 1]
      [] OTHER -> c

\* the call the handler issues on reaching the await `pc`
Issue(c, pc) ==
    CASE pc \in {"exists", "makePublic"} -> [c EXCEPT !.storage = @ + 1]
      [] pc = "recognize" -> [c EXCEPT !.recognition = @ + 1]
      [] pc = "lookup" -> [c EXCEPT !.registry = @ + 1]
      [] pc = "send" -> [c EXCEPT !.send = @ + 1]
      [] pc \in {"logAlert", "logUnregistered", "logFailed"} -> [c EXCEPT !.write = @ + 1]
      [] OTHER -> c

\* getPublicUrl's catch returning the gs:// address instead of rethrowing
ThrowSwallowedByResolver(r, err, at) ==
    IF at = "resolve" THEN [r EXCEPT !.pc = "recognize", !.imageUrl = event.data.imageUrl]
    ELSE [r EXCEPT !.pc = "logFailed", !.error = err, !.errorAt = at]

\* a failed recognition call or topic send issued again
ThrowAndRetry(r, err, at) ==
    IF at \in {"recognize", "send"} THEN [r EXCEPT !.pc = at]
    ELSE [r EXCEPT !.pc = "logFailed", !.error = err, !.errorAt = at]

\* index.js:198-217  an error thrown inside the try block lands in the catch
\* block, which awaits the failedDetections write
Throw(r, err, at) == [r EXCEPT !.pc = "logFailed", !.error = err, !.errorAt = at]

\* a return of the handler
Finish(r, outcome) == [r EXCEPT !.pc = "done", !.outcome = outcome]

TypeError == PlainError("Cannot read properties of undefined")

AfterUnregisteredLoggedFallsThrough(r) == Throw(r, TypeError, "owner")

\* index.js:134  return, after the unregisteredPlates write
AfterUnregisteredLogged(r) == Finish(r, "UnregisteredLogged")

-----------------------------------------------------------------------------
(* alertBlockedCharger *)

\* index.js:62-97 and 12-35: the guard, then either getPublicUrl up to its
\* await of file.exists(), or the axios.post
Trigger ==
    /\ run.pc = "start"
    /\ run' = IF GuardFails(event) THEN Finish(run, "GuardSkip")
              ELSE IF StartsWithGs(event.data.imageUrl) THEN [run EXCEPT !.pc = "exists"]
              ELSE [run EXCEPT !.pc = "recognize", !.imageUrl = event.data.imageUrl]
    /\ calls' = Issue(calls, run'.pc)
    /\ UNCHANGED <<event, storage, userPlates, sent, alerts, unregisteredPlates,
                   failedDetections, norm, aside>>

\* index.js:35-41  file.exists() answers or rejects; then makePublic is awaited
ExistsReturns ==
    /\ run.pc = "exists"
    /\ \E rejected \in BOOLEAN :
         run' = IF rejected THEN Throw(run, PlainError("storage unavailable"), "resolve")
                ELSE IF ~storage.exists
                     THEN Throw(run, PlainError("File does not exist"), "resolve")
                ELSE [run EXCEPT !.pc = "makePublic"]
    /\ calls' = Issue(calls, run'.pc)
    /\ UNCHANGED <<event, storage, userPlates, sent, alerts, unregisteredPlates,
                   failedDetections, norm, aside>>

\* index.js:41-47 and 80-97  makePublic resolves or rejects; then axios.post
MakePublicReturns ==
    /\ run.pc = "makePublic"
    /\ \E rejected \in BOOLEAN :
         /\ run' = IF rejected THEN Throw(run, PlainError("permission denied"), "resolve")
                   ELSE [run EXCEPT !.pc = "recognize",
                                    !.imageUrl = PublicUrl(event.data.imageUrl)]
         /\ storage' = IF rejected THEN storage ELSE [storage EXCEPT !.public = TRUE]
    /\ calls' = Issue(calls, run'.pc)
    /\ UNCHANGED <<event, userPlates, sent, alerts, unregisteredPlates,
                   failedDetections, norm, aside>>

\* index.js:87-118  the recognition service answers; the first candidate is
\* normalised and the registry query issued
RecognizeReturns ==
    /\ run.pc = "recognize"
    /\ \E resp \in Responses :
         LET r == [run EXCEPT !.response = resp, !.results = ResultsOf(resp)] IN
         run' = IF ~resp.ok THEN Throw([run EXCEPT !.response = resp], resp.error, "recognize")
                ELSE IF NoPlateDetected(r.results) THEN Finish(r, "NoPlate")
                ELSE IF Len(r.results) = 0 \/ r.results[1].plate = UndefinedSeq
                     THEN Throw(r, TypeError, "detect")
                ELSE [r EXCEPT !.pc = "lookup",
                               !.detectedPlate = DetectedPlate(r.results[1].plate),
                               !.confidence = r.results[1].score]
    /\ calls' = Issue(calls, run'.pc)
    /\ UNCHANGED <<event, storage, userPlates, sent, alerts, unregisteredPlates,
                   failedDetections, norm, aside>>

\* index.js:115-175  the registry query answers or rejects; on no match the
\* unregisteredPlates write is awaited, on a match the message is built and sent
LookupReturns ==
    /\ run.pc = "lookup"
    /\ \/ run' = Throw(run, PlainError("registry unavailable"), "lookup")
       \/ \E docs \in PlateQuery(userPlates, run.detectedPlate) :
            LET r == [run EXCEPT !.queried = docs] IN
            run' = IF QueryEmpty(docs) THEN [r EXCEPT !.pc = "logUnregistered"]
                   ELSE IF Len(docs) = 0 THEN Throw(r, TypeError, "owner")
                   ELSE IF r.confidence = UndefinedNum
                        THEN Throw([r EXCEPT !.ownerId = docs[1].userId], TypeError, "compose")
                   ELSE [r EXCEPT !.pc = "send", !.ownerId = docs[1].userId]
    /\ calls' = Issue(calls, run'.pc)
    /\ UNCHANGED <<event, storage, userPlates, sent, alerts, unregisteredPlates,
                   failedDetections, norm, aside>>

\* index.js:175-193  the topic send resolves or rejects; then the alerts write
SendReturns ==
    /\ run.pc = "send"
    /\ \E rejected \in BOOLEAN :
         /\ run' = IF rejected THEN Throw(run, PlainError("messaging unavailable"), "send")
                   ELSE [run EXCEPT !.pc = "logAlert"]
         /\ sent' = IF rejected THEN sent
                    ELSE Append(sent, Message(event.data, run.detectedPlate, run.ownerId,
                                              run.confidence))
    /\ calls' = Issue(calls, run'.pc)
    /\ UNCHANGED <<event, storage, userPlates, alerts, unregisteredPlates,
                   failedDetections, norm, aside>>

\* index.js:179-196  the alerts write resolves or rejects
LogAlertReturns ==
    /\ run.pc = "logAlert"
    /\ \E rejected \in BOOLEAN :
         /\ run' = IF rejected THEN Throw(run, PlainError("alerts write failed"), "logAlert")
                   ELSE Finish(run, "Logged")
         /\ alerts' = IF rejected THEN alerts
                      ELSE Append(alerts, AlertRecord(event.data, run.ownerId,
                                                      run.detectedPlate, run.imageUrl,
                                                      run.confidence))
    /\ calls' = Issue(calls, run'.pc)
    /\ UNCHANGED <<event, storage, userPlates, sent, unregisteredPlates,
                   failedDetections, norm, aside>>

\* index.js:124-134  the unregisteredPlates write resolves or rejects
LogUnregisteredReturns ==
    /\ run.pc = "logUnregistered"
    /\ \E rejected \in BOOLEAN :
         /\ run' = IF rejected
                   THEN Throw(run, PlainError("unregisteredPlates write failed"),
                              "logUnregistered")
                   ELSE AfterUnregisteredLogged(run)
         /\ unregisteredPlates' =
              IF rejected THEN unregisteredPlates
              ELSE Append(unregisteredPlates,
                          UnregisteredPlateRecord(event.data, run.detectedPlate,
                                                  run.confidence))
    /\ calls' = Issue(calls, run'.pc)
    /\ UNCHANGED <<event, storage, userPlates, sent, alerts, failedDetections, norm, aside>>

\* index.js:210-218  the failedDetections write resolves, or rejects: nothing
\* catches that, the handler's promise rejects
LogFailedReturns ==
    /\ run.pc = "logFailed"
    /\ \E rejected \in BOOLEAN :
         /\ run' = IF rejected
                   THEN [Finish(run, "Escaped") EXCEPT
                           !.escaped = PlainError("failedDetections write failed")]
                   ELSE Finish(run, "FailedLogged")
         /\ failedDetections' =
              IF rejected THEN failedDetections
              ELSE Append(failedDetections, FailedDetectionRecord(event.data, run.error))
    /\ UNCHANGED <<event, storage, userPlates, sent, alerts, unregisteredPlates, calls, norm, aside>>

-----------------------------------------------------------------------------
(* The client *)

\* App.js savePlate, for the signed-in user u with p typed into the plate box
SavePlate(u, p) ==
    /\ ~FalsySeq(normalizePlate(p))
    /\ \E rejected \in BOOLEAN :
         userPlates' = IF rejected THEN userPlates
                       ELSE [userPlates EXCEPT ![u] = [userId |-> u, plate |-> normalizePlate(p)]]
    /\ UNCHANGED <<event, run, storage, sent, alerts, unregisteredPlates, failedDetections,
                   calls, norm, aside>>

-----------------------------------------------------------------------------
(* The normalisers side by side *)

NormAlphabet == {"a", "A", "1", " ", "\t"}

PlateStrings == UNION { [1..n -> NormAlphabet] : n \in 0..MaxPlateLen }

NormIdle ==
    [pc |-> "idle", p |-> << >>, q |-> << >>, server |-> << >>, twice |-> << >>,
     client |-> << >>, serverQ |-> << >>]

\* both normalisers applied to p, the server's applied again to its own
\* result, and to a second plate q
Normalize ==
    /\ norm.pc = "input"
    /\ norm' = [norm EXCEPT !.pc = "done",
                            !.server = DetectedPlate(norm.p),
                            !.twice = DetectedPlate(DetectedPlate(norm.p)),
                            !.client = normalizePlate(norm.p),
                            !.serverQ = DetectedPlate(norm.q)]
    /\ UNCHANGED <<event, run, storage, userPlates, sent, alerts, unregisteredPlates,
                   failedDetections, calls, aside>>

-----------------------------------------------------------------------------
(* getPublicUrl called on its own *)

\* how many times in a row getPublicUrl is applied, each time to its last result
MaxResolves == 2

ResolveUrls ==
    { << >>,
      <<"gs://", "bkt", "/", "x.jpg">>,
      <<"gs://", "bkt", "/", "up", "/", "my pic.jpg">>,
      <<"gs://", "b2", "/", "d", "/", "y.png">>,
      <<"gs://", "b2", "/", "z.jpg">>,
      <<"https://", "host", "/", "x.jpg">>,
      <<"http://", "host", "/", "gs://", "x.jpg">>,
      <<"https://", "storage.googleapis.com", "/", "bkt", "/", "x.jpg">> }

ResolverIdle ==
    [ pc |-> "idle",
      gsUrl |-> UndefinedSeq,      \* the argument
      result |-> UndefinedSeq,     \* the returned address
      thrown |-> NoError,          \* the error it rejected with
      storageCalls |-> 0,          \* file.exists / file.makePublic calls of this call
      round |-> 0,
      previous |-> UndefinedSeq ]  \* the result of the call before this one

AlreadyPublicNever(gsUrl) == FALSE

\* index.js:13  !gsUrl.startsWith('gs://')
AlreadyPublic(gsUrl) == ~StartsWithGs(gsUrl)

\* index.js:12-35  entry: the identity fast path, or the parse and file.exists()
GetPublicUrlCall ==
    /\ resolver.pc = "call"
    /\ resolver' = IF AlreadyPublic(resolver.gsUrl)
                   THEN [resolver EXCEPT !.pc = "returned", !.result = resolver.gsUrl]
                   ELSE [resolver EXCEPT !.pc = "exists", !.storageCalls = @ + 1]
    /\ UNCHANGED <<event, run, storage, userPlates, sent, alerts, unregisteredPlates,
                   failedDetections, calls, norm, other, subscriptions, topicMembers,
                   callable>>

\* index.js:35-41  file.exists() answers or rejects
GetPublicUrlExists ==
    /\ resolver.pc = "exists"
    /\ \E rejected \in BOOLEAN :
         resolver' =
            IF rejected
            THEN [resolver EXCEPT !.pc = "threw", !.thrown = PlainError("storage unavailable")]
            ELSE IF ~storage.exists
            THEN [resolver EXCEPT !.pc = "threw", !.thrown = PlainError("File does not exist")]
            ELSE [resolver EXCEPT !.pc = "makePublic", !.storageCalls = @ + 1]
    /\ UNCHANGED <<event, run, storage, userPlates, sent, alerts, unregisteredPlates,
                   failedDetections, calls, norm, other, subscriptions, topicMembers,
                   callable>>

\* index.js:41-52  file.makePublic() resolves or rejects
GetPublicUrlMakePublic ==
    /\ resolver.pc = "makePublic"
    /\ \E rejected \in BOOLEAN :
         /\ resolver' =
              IF rejected
              THEN [resolver EXCEPT !.pc = "threw", !.thrown = PlainError("permission denied")]
              ELSE [resolver EXCEPT !.pc = "returned", !.result = PublicUrl(resolver.gsUrl)]
         /\ storage' = IF rejected THEN storage ELSE [storage EXCEPT !.public = TRUE]
    /\ UNCHANGED <<event, run, userPlates, sent, alerts, unregisteredPlates,
                   failedDetections, calls, norm, other, subscriptions, topicMembers,
                   callable>>

\* getPublicUrl applied to the address it has just returned
ResolveAgain ==
    /\ resolver.pc = "returned"
    /\ resolver.round < MaxResolves
    /\ resolver' = [ResolverIdle EXCEPT !.pc = "call", !.gsUrl = resolver.result,
                                        !.previous = resolver.result,
                                        !.round = resolver.round + 1]
    /\ UNCHANGED <<event, run, storage, userPlates, sent, alerts, unregisteredPlates,
                   failedDetections, calls, norm, other, subscriptions, topicMembers,
                   callable>>

-----------------------------------------------------------------------------
(* The state the pipeline's specification leaves idle *)

OtherIdle == [started |-> FALSE, run |-> NewRun, calls |-> NoCalls]

NoSubscription ==
    [userId |-> Undefined, topic |-> Undefined, token |-> Undefined, active |-> FALSE,
     exists |-> FALSE]

NoReply == [status |-> "none", message |-> "none", topic |-> "none"]

CallableIdle ==
    [ pc |-> "idle",
      auth |-> Undefined,       \* request.auth.uid, undefined when request.auth is absent
      token |-> Undefined,      \* request.data.token
      action |-> Undefined,     \* request.data.action
      reply |-> NoReply,        \* the value the call returned
      code |-> "none",          \* the code of the HttpsError the call threw
      before |-> [subscriptions |-> [u \in Users |-> NoSubscription], topicMembers |-> {}] ]

AsideIdle ==
    /\ resolver = ResolverIdle
    /\ other = OtherIdle
    /\ subscriptions = [u \in Users |-> NoSubscription]
    /\ topicMembers = {}
    /\ callable = CallableIdle

-----------------------------------------------------------------------------
(* manageChargerSubscription *)

\* the signed-in user whose calls are followed
Callers == {"U1"}

Tokens == {"T1", "T2"}

Actions == {Undefined, "subscribe", "unsubscribe", "toggle"}

\* index.js:254-258, 270-274
Success(message) == [status |-> "success", message |-> message, topic |-> "charger_alerts"]

\* a throw of HttpsError(code, ...) out of the handler
Fail(c, code) == [c EXCEPT !.pc = "returned", !.code = code]

\* index.js:277-281  the HttpsError("invalid-argument") thrown in the else
\* branch is thrown inside the try block: the catch rethrows it as "internal"
InvalidActionCode == "internal"

\* index.js:228-242, 260-261, 276-281  the checks, then the first await
ManageChargerSubscription(auth, token, action) ==
    /\ callable.pc \in {"idle", "returned"}
    /\ LET c == [CallableIdle EXCEPT !.auth = auth, !.token = token, !.action = action,
                                     !.before = [subscriptions |-> subscriptions,
                                                 topicMembers |-> topicMembers]]
       IN  callable' =
             IF auth = Undefined THEN Fail(c, "unauthenticated")
             ELSE IF Falsy(token) \/ Falsy(action) THEN Fail(c, "invalid-argument")
             ELSE IF action = "subscribe" THEN [c EXCEPT !.pc = "subscribeToTopic"]
             ELSE IF action = "unsubscribe" THEN [c EXCEPT !.pc = "unsubscribeFromTopic"]
             ELSE Fail(c, InvalidActionCode)
    /\ UNCHANGED <<event, run, storage, userPlates, sent, alerts, unregisteredPlates,
                   failedDetections, calls, norm, resolver, other, subscriptions,
                   topicMembers>>

\* index.js:242-245  subscribeToTopic resolves or rejects; then the set is awaited
SubscribeToTopicReturns ==
    /\ callable.pc = "subscribeToTopic"
    /\ \E rejected \in BOOLEAN :
         /\ callable' = IF rejected THEN Fail(callable, "internal")
                        ELSE [callable EXCEPT !.pc = "set"]
         /\ topicMembers' = IF rejected THEN topicMembers
                            ELSE topicMembers \cup {callable.token}
    /\ UNCHANGED <<event, run, storage, userPlates, sent, alerts, unregisteredPlates,
                   failedDetections, calls, norm, resolver, other, subscriptions>>

\* index.js:245-258  set(..., { merge: true }) resolves or rejects
SetReturns ==
    /\ callable.pc = "set"
    /\ \E rejected \in BOOLEAN :
         /\ callable' = IF rejected THEN Fail(callable, "internal")
                        ELSE [callable EXCEPT !.pc = "returned",
                                              !.reply = Success("Subscribed to charger alerts")]
         /\ subscriptions' =
              IF rejected THEN subscriptions
              ELSE [subscriptions EXCEPT ![callable.auth] =
                      [userId |-> callable.auth, topic |-> "charger_alerts",
                       token |-> callable.token, active |-> TRUE, exists |-> TRUE]]
    /\ UNCHANGED <<event, run, storage, userPlates, sent, alerts, unregisteredPlates,
                   failedDetections, calls, norm, resolver, other, topicMembers>>

\* index.js:261-264  unsubscribeFromTopic resolves or rejects; then the update
UnsubscribeFromTopicReturns ==
    /\ callable.pc = "unsubscribeFromTopic"
    /\ \E rejected \in BOOLEAN :
         /\ callable' = IF rejected THEN Fail(callable, "internal")
                        ELSE [callable EXCEPT !.pc = "update"]
         /\ topicMembers' = IF rejected THEN topicMembers
                            ELSE topicMembers \ {callable.token}
    /\ UNCHANGED <<event, run, storage, userPlates, sent, alerts, unregisteredPlates,
                   failedDetections, calls, norm, resolver, other, subscriptions>>

\* index.js:264-274  update(...) resolves, or rejects: for a transport failure,
\* or because the document does not exist (update never creates one)
UpdateReturns ==
    /\ callable.pc = "update"
    /\ \E rejected \in BOOLEAN :
         LET failed == rejected \/ ~subscriptions[callable.auth].exists IN
         /\ callable' = IF failed THEN Fail(callable, "internal")
                        ELSE [callable EXCEPT !.pc = "returned",
                                              !.reply = Success("Unsubscribed from alerts")]
         /\ subscriptions' =
              IF failed THEN subscriptions
              ELSE [subscriptions EXCEPT ![callable.auth].active = FALSE]
    /\ UNCHANGED <<event, run, storage, userPlates, sent, alerts, unregisteredPlates,
                   failedDetections, calls, norm, resolver, other, topicMembers>>

-----------------------------------------------------------------------------
(* Specifications *)

Init ==
    /\ event \in Events
    /\ run = NewRun
    /\ storage \in [exists : BOOLEAN, public : BOOLEAN]
    /\ userPlates = [u \in Users |-> NoDoc]
    /\ sent = << >>
    /\ alerts = << >>
    /\ unregisteredPlates = << >>
    /\ failedDetections = << >>
    /\ calls = NoCalls
    /\ norm = NormIdle
    /\ AsideIdle

Next ==
    \/ Trigger
    \/ ExistsReturns
    \/ MakePublicReturns
    \/ RecognizeReturns
    \/ LookupReturns
    \/ SendReturns
    \/ LogAlertReturns
    \/ LogUnregisteredReturns
    \/ LogFailedReturns
    \/ \E u \in Users, p \in TypedPlates : SavePlate(u, p)

Spec == Init /\ [][Next]_vars

NormInit ==
    /\ event = [hasData |-> FALSE, data |-> NoReport, plateApiKey |-> Undefined]
    /\ run = NewRun
    /\ storage = [exists |-> FALSE, public |-> FALSE]
    /\ userPlates = [u \in Users |-> NoDoc]
    /\ sent = << >>
    /\ alerts = << >>
    /\ unregisteredPlates = << >>
    /\ failedDetections = << >>
    /\ calls = NoCalls
    /\ \E p \in PlateStrings, q \in PlateStrings :
         norm = [NormIdle EXCEPT !.pc = "input", !.p = p, !.q = q]
    /\ AsideIdle

NormNext == Normalize

NormSpec == NormInit /\ [][NormNext]_vars

ResolveInit ==
    /\ event = [hasData |-> FALSE, data |-> NoReport, plateApiKey |-> Undefined]
    /\ run = NewRun
    /\ storage \in [exists : BOOLEAN, public : BOOLEAN]
    /\ userPlates = [u \in Users |-> NoDoc]
    /\ sent = << >>
    /\ alerts = << >>
    /\ unregisteredPlates = << >>
    /\ failedDetections = << >>
    /\ calls = NoCalls
    /\ norm = NormIdle
    /\ \E u \in ResolveUrls :
         resolver = [ResolverIdle EXCEPT !.pc = "call", !.gsUrl = u, !.round = 1]
    /\ other = OtherIdle
    /\ subscriptions = [u \in Users |-> NoSubscription]
    /\ topicMembers = {}
    /\ callable = CallableIdle

ResolveNext ==
    \/ GetPublicUrlCall
    \/ GetPublicUrlExists
    \/ GetPublicUrlMakePublic
    \/ ResolveAgain

ResolveSpec == ResolveInit /\ [][ResolveNext]_vars

SubInit ==
    /\ event = [hasData |-> FALSE, data |-> NoReport, plateApiKey |-> Undefined]
    /\ run = NewRun
    /\ storage = [exists |-> FALSE, public |-> FALSE]
    /\ userPlates = [u \in Users |-> NoDoc]
    /\ sent = << >>
    /\ alerts = << >>
    /\ unregisteredPlates = << >>
    /\ failedDetections = << >>
    /\ calls = NoCalls
    /\ norm = NormIdle
    /\ AsideIdle

SubNext ==
    \/ \E auth \in Callers \cup {Undefined}, token \in Tokens \cup {Undefined},
          action \in Actions : ManageChargerSubscription(auth, token, action)
    \/ SubscribeToTopicReturns
    \/ SetReturns
    \/ UnsubscribeFromTopicReturns
    \/ UpdateReturns

SubSpec == SubInit /\ [][SubNext]_vars

-----------------------------------------------------------------------------
(* Duplicate delivery: the same chargerUsage document handed to two invocations *)

\* the reports delivered twice
DupEvents ==
    { e \in Events : e.hasData /\ e.data.chargerId = "CH1" /\ e.data.location = "Bay 4"
                                /\ e.data.reportedBy = "U9" }

\* the registries the two invocations read (left by earlier savePlate calls)
DupRegistries ==
    { [u \in Users |-> NoDoc],
      [u \in Users |-> IF u = "U1" THEN [userId |-> u, plate |-> normalizePlate(<<"a", "b", "1">>)]
                       ELSE NoDoc],
      [u \in Users |-> [userId |-> u, plate |-> normalizePlate(<<"a", "b", "1">>)]] }

\* what each collaborator call of an invocation (locals r, calls issued c) has
\* answered so far: << >> while the call is unissued or in flight
Replies(r, c) ==
    [ exists |->
        IF c.storage = 0 \/ r.pc = "exists" THEN << >>
        ELSE <<r.errorAt = "resolve" /\ r.error = PlainError("storage unavailable")>>,
      makePublic |->
        IF c.storage < 2 \/ r.pc = "makePublic" THEN << >>
        ELSE <<r.errorAt = "resolve" /\ r.error = PlainError("permission denied")>>,
      recognize |->
        IF c.recognition = 0 \/ r.pc = "recognize" THEN << >> ELSE <<r.response>>,
      lookup |->
        IF c.registry = 0 \/ r.pc = "lookup" THEN << >>
        ELSE <<[rejected |-> r.errorAt = "lookup", docs |-> r.queried]>>,
      send |->
        IF c.send = 0 \/ r.pc = "send" THEN << >> ELSE <<r.errorAt = "send">>,
      logAlert |->
        IF r.outcome = "Logged" THEN <<FALSE>>
        ELSE IF r.errorAt = "logAlert" THEN <<TRUE>> ELSE << >>,
      logUnregistered |->
        IF r.outcome = "UnregisteredLogged" THEN <<FALSE>>
        ELSE IF r.errorAt = "logUnregistered" THEN <<TRUE>> ELSE << >>,
      logFailed |->
        IF r.outcome = "FailedLogged" THEN <<FALSE>>
        ELSE IF r.outcome = "Escaped" THEN <<TRUE>> ELSE << >> ]

\* unchanged collaborator responses: a call both invocations have had answered
\* was answered alike
Agree ==
    LET mine == Replies(run, calls)
        theirs == Replies(other.run, other.calls) IN
    \A k \in DOMAIN mine : mine[k] = << >> \/ theirs[k] = << >> \/ mine[k] = theirs[k]

\* the runtime turns to the other invocation of the handler (index.js:59); the
\* invocations share the stores and nothing else
Switch ==
    /\ other' = [started |-> TRUE, run |-> run, calls |-> calls]
    /\ run' = other.run
    /\ calls' = other.calls
    /\ UNCHANGED <<event, storage, userPlates, sent, alerts, unregisteredPlates,
                   failedDetections, norm, resolver, subscriptions, topicMembers, callable>>

DupInit ==
    /\ event \in DupEvents
    /\ run = NewRun
    /\ storage \in [exists : BOOLEAN, public : BOOLEAN]
    /\ userPlates \in DupRegistries
    /\ sent = << >>
    /\ alerts = << >>
    /\ unregisteredPlates = << >>
    /\ failedDetections = << >>
    /\ calls = NoCalls
    /\ norm = NormIdle
    /\ AsideIdle

DupNext ==
    \/ Trigger /\ Agree'
    \/ ExistsReturns /\ Agree'
    \/ MakePublicReturns /\ Agree'
    \/ RecognizeReturns /\ Agree'
    \/ LookupReturns /\ Agree'
    \/ SendReturns /\ Agree'
    \/ LogAlertReturns /\ Agree'
    \/ LogUnregisteredReturns /\ Agree'
    \/ LogFailedReturns /\ Agree'
    \/ Switch

DupSpec == DupInit /\ [][DupNext]_vars

-----------------------------------------------------------------------------
(* Fairness: every awaited call eventually returns or fails *)

FairSpec ==
    /\ Spec
    /\ WF_vars(Trigger) /\ WF_vars(ExistsReturns) /\ WF_vars(MakePublicReturns)
    /\ WF_vars(RecognizeReturns) /\ WF_vars(LookupReturns) /\ WF_vars(SendReturns)
    /\ WF_vars(LogAlertReturns) /\ WF_vars(LogUnregisteredReturns)
    /\ WF_vars(LogFailedReturns)

\* under FairSpec the handler's promise always settles
HandlerSettles == <>(run.pc = "done")

-----------------------------------------------------------------------------
(* Vocabulary of the properties *)

Done == run.pc = "done"

PassedGuard == run.pc # "start" /\ run.outcome # "GuardSkip"

\* the registry query has answered (it did not reject)
LookupAnswered == calls.registry = 1 /\ run.pc # "lookup" /\ run.errorAt # "lookup"

\* ... with no matching document
NoMatch == LookupAnswered /\ Len(run.queried) = 0

\* ... with a matching document
Matched == LookupAnswered /\ Len(run.queried) = 1

\* the recognition service answered 2xx with at least one candidate
CandidateReturned == run.response.ok /\ Len(ResultsOf(run.response)) >= 1

TotalRecords == Len(alerts) + Len(unregisteredPlates) + Len(failedDetections)

TerminalStates == {"GuardSkip", "NoPlate", "Logged", "UnregisteredLogged", "FailedLogged"}

-----------------------------------------------------------------------------
(* C1 *)

\* C1: when the owner lookup found a match and the topic send throws, an
\* AlertRecord is still written, no FailedDetectionRecord is written and the
\* error does not leave the run.  (The code does the opposite: the send's
\* rejection lands in the catch block.)
C1_SendFailureStillLogsAlert ==
    (Done /\ Matched /\ run.errorAt = "send")
        => /\ Len(alerts) = 1
           /\ Len(failedDetections) = 0
           /\ run.escaped = NoError

-----------------------------------------------------------------------------
(* C2 *)

\* C2: a run that passes the guard, gets at least one (plate, score) candidate
\* and whose registry query returns the record for the normalised first
\* candidate has written exactly one AlertRecord and attempted exactly one
\* topic send when it ends.
C2_OneAlertOneSend ==
    (Done /\ PassedGuard /\ CandidateReturned /\ run.results[1] \in WellFormed /\ Matched)
        => /\ Len(alerts) = 1
           /\ calls.send = 1

-----------------------------------------------------------------------------
(* C3 *)

\* C3 as stated: a run whose registry query returns no match has written
\* exactly one UnregisteredPlateRecord, no AlertRecord, and sent nothing.
C3_Original ==
    (Done /\ NoMatch)
        => /\ Len(unregisteredPlates) = 1
           /\ Len(alerts) = 0
           /\ calls.send = 0

\* C3 amended: once the registry query has returned no match, no AlertRecord
\* is written and no topic send occurs; when the run ends exactly one
\* UnregisteredPlateRecord (for the normalised detected plate) has been
\* written, unless that write itself failed, in which case none has.
C3_UnregisteredBranch ==
    NoMatch
        => /\ Len(alerts) = 0
           /\ calls.send = 0
           /\ sent = << >>
           /\ Len(unregisteredPlates) <= 1
           /\ Done =>
                IF run.errorAt = "logUnregistered"
                THEN unregisteredPlates = << >>
                ELSE /\ Len(unregisteredPlates) = 1
                     /\ unregisteredPlates[1].plate = DetectedPlate(run.results[1].plate)
                     /\ unregisteredPlates[1].imageUrl = event.data.imageUrl

C3_Witness ==
    Done /\ NoMatch /\ Len(unregisteredPlates) = 1 /\ run.outcome = "UnregisteredLogged"

-----------------------------------------------------------------------------
(* C4 *)

\* C4: when the recognition service answers successfully with zero results,
\* or without a results field, the run ends (as NoPlate) with no record in
\* alerts, unregisteredPlates or failedDetections, no audit write attempted,
\* no registry read and no topic send.
C4_NoPlateNoRecord ==
    (run.response.ok /\ (~run.response.hasData \/ ~run.response.hasResults
                         \/ run.response.results = << >>))
        => /\ run.pc = "done" /\ run.outcome = "NoPlate"
           /\ alerts = << >> /\ unregisteredPlates = << >> /\ failedDetections = << >>
           /\ calls.write = 0 /\ calls.registry = 0 /\ calls.send = 0

C4_Witness ==
    Done /\ run.response.ok /\ run.response.hasResults /\ run.response.results = << >>
         /\ calls.recognition = 1

-----------------------------------------------------------------------------
(* C5 *)

\* C5: when the event has no payload, the payload has no imageUrl, or the
\* recognition-service credential is not configured, the run makes no call to
\* storage, recognition service, registry or messaging and writes no record.
C5_GuardSkipIsSilent ==
    (~event.hasData \/ event.data.imageUrl = UndefinedSeq \/ event.plateApiKey = Undefined)
        => /\ calls = NoCalls
           /\ alerts = << >> /\ unregisteredPlates = << >> /\ failedDetections = << >>
           /\ sent = << >>
           /\ run.pc \in {"start", "done"}
           /\ Done => run.outcome = "GuardSkip"

C5_Witness ==
    Done /\ run.outcome = "GuardSkip" /\ event.hasData
         /\ StartsWithGs(event.data.imageUrl) /\ event.plateApiKey = Undefined

-----------------------------------------------------------------------------
(* C6 *)

\* C6 as stated: a run writes at most one audit record across the three
\* stores, and a run that is neither a guard skip nor a zero-candidate
\* detection writes exactly one, whatever collaborator call fails.
C6_Original ==
    /\ TotalRecords <= 1
    /\ (Done /\ run.outcome \notin {"GuardSkip", "NoPlate"}) => TotalRecords = 1

\* C6 amended: a run writes at most one audit record across the three stores,
\* and a run that is neither a guard skip nor a zero-candidate detection has
\* written exactly one when it ends, unless the FailedDetectionRecord write
\* itself failed, in which case it has written none.
C6_OneRecordPerRun ==
    /\ TotalRecords <= 1
    /\ (Done /\ run.outcome \notin {"GuardSkip", "NoPlate"})
         => TotalRecords = (IF run.outcome = "Escaped" THEN 0 ELSE 1)
    /\ run.outcome = "Escaped" <=> run.escaped # NoError

C6_Witness ==
    Done /\ run.errorAt = "logUnregistered" /\ unregisteredPlates = << >>
         /\ Len(failedDetections) = 1 /\ TotalRecords = 1

-----------------------------------------------------------------------------
(* C7 *)

\* the calls that follow the step an error was thrown at were not made
RemainingStepsAborted ==
    /\ run.errorAt = "resolve" => calls.recognition = 0
    /\ run.errorAt \in {"resolve", "recognize", "detect"} => calls.registry = 0
    /\ run.errorAt \in {"resolve", "recognize", "detect", "lookup", "owner", "compose",
                        "logUnregistered"}
         => calls.send = 0 /\ sent = << >> /\ alerts = << >>
    /\ run.errorAt \in {"resolve", "recognize", "detect", "lookup", "owner", "compose"}
         => unregisteredPlates = << >>

\* the FailedDetectionRecord the catch block is expected to write for the error
\* it received: the report's own image address, the error's message, and the
\* upstream body when the error carries a non-empty one
ExpectedFailedRecord ==
    [ imageUrl |-> event.data.imageUrl,
      chargerId |-> event.data.chargerId,
      location |-> event.data.location,
      error |-> run.error.message,
      errorDetails |-> IF run.error.hasResponse /\ run.error.body # ""
                       THEN run.error.body ELSE Null ]

NonDispatchError == run.errorAt \notin {"none", "send"}

IsTimeout == run.errorAt = "recognize" /\ run.error.message = "timeout of 30000ms exceeded"

\* C7 as stated: every error other than a dispatch error aborts the remaining
\* steps and results in exactly one FailedDetectionRecord with the original
\* image address, the error message and any upstream error body; a
\* recognition-service timeout gives one record, no registry read, no send.
C7_Original ==
    (Done /\ NonDispatchError)
        => /\ RemainingStepsAborted
           /\ failedDetections = <<ExpectedFailedRecord>>
           /\ IsTimeout => calls.registry = 0 /\ calls.send = 0

\* C7 amended: every error other than a dispatch error aborts the remaining
\* steps and leads to exactly one FailedDetectionRecord write attempt; when
\* the run ends, exactly one FailedDetectionRecord has been written, carrying
\* the original image address, the error message and the (non-empty) upstream
\* error body, unless that write itself failed, in which case none has.  A
\* recognition-service timeout makes no registry read and no topic send.
C7_ErrorsAreLogged ==
    NonDispatchError
        => /\ RemainingStepsAborted
           /\ run.errorAt = "recognize" => run.error = run.response.error
           /\ IsTimeout => calls.registry = 0 /\ calls.send = 0
           /\ Len(failedDetections) <= 1
           /\ Done => failedDetections =
                        (IF run.outcome = "Escaped" THEN << >> ELSE <<ExpectedFailedRecord>>)

C7_Witness ==
    Done /\ IsTimeout /\ Len(failedDetections) = 1 /\ calls.recognition = 1
         /\ StartsWithGs(event.data.imageUrl)

\* a non-2xx answer: the record carries the upstream body
C7_WitnessBody ==
    Done /\ run.errorAt = "recognize" /\ Len(failedDetections) = 1
         /\ failedDetections[1].errorDetails = "invalid token"

-----------------------------------------------------------------------------
(* C8 *)

\* C8: every run ends in one of the terminal states (guard skip, NoPlate,
\* Logged, UnregisteredLogged, FailedLogged) with no error escaping the
\* handler, also when an audit write fails.  (That the handler's promise
\* settles at all is HandlerSettles, under FairSpec.)
C8_RunsToTerminalState ==
    Done => run.outcome \in TerminalStates /\ run.escaped = NoError

-----------------------------------------------------------------------------
(* C9 *)

\* C9: in every run that writes an AlertRecord, the record's recipientId and
\* the sent message's data.ownerId are the userId of the registry document the
\* plate query returned, that document's plate is the detected plate, and the
\* record's plate and the message's data.plate are the normalised first
\* recognition candidate.
C9_AlertNamesTheOwner ==
    Len(alerts) >= 1
        => /\ Len(alerts) = 1 /\ Len(sent) = 1 /\ Len(run.queried) = 1
           /\ alerts[1].recipientId = run.queried[1].userId
           /\ sent[1].data.ownerId = run.queried[1].userId
           /\ run.queried[1].plate = alerts[1].plate
           /\ alerts[1].plate = DetectedPlate(run.results[1].plate)
           /\ alerts[1].recipientPlate = alerts[1].plate
           /\ sent[1].data.plate = alerts[1].plate

C9_Witness ==
    /\ Done /\ Len(alerts) = 1
    /\ alerts[1].recipientId = "U2"
    /\ alerts[1].plate = <<"A", "B", "1">>
    /\ run.results[1].plate = <<"a", "b", " ", "1">>
    /\ event.data.reportedBy = "U9"
    /\ userPlates["U1"] # NoDoc

-----------------------------------------------------------------------------
(* C10 *)

SameLetter(c, d) ==
    c = d \/ {c, d} \in {{"a", "A"}, {"b", "B"}, {"c", "C"}}

Visible(s) == SelectSeq(s, LAMBDA c : c \notin Whitespace)

\* p and q differ in letter case and whitespace only
SameIgnoringCaseAndSpace(p, q) ==
    /\ Len(Visible(p)) = Len(Visible(q))
    /\ \A i \in 1..Len(Visible(p)) : SameLetter(Visible(p)[i], Visible(q)[i])

\* C10: the server's plate normalisation is idempotent, gives equal results
\* for plates that differ in case and whitespace only, and gives the result of
\* the client's normalizePlate.
C10_NormalisationAgrees ==
    norm.pc = "done"
        => /\ norm.twice = norm.server
           /\ norm.client = norm.server
           /\ SameIgnoringCaseAndSpace(norm.p, norm.q) => norm.server = norm.serverQ

C10_Witness ==
    /\ norm.pc = "done"
    /\ norm.p = <<"a", " ", "\t">>
    /\ norm.q = <<"A">>
    /\ norm.server = <<"A">>

-----------------------------------------------------------------------------
(* C11 *)

\* C11: getPublicUrl returns an address that does not start with gs://
\* unchanged and without calling storage (no existence check, no visibility
\* change); so applied to the address a successful resolution returned, it
\* returns that address.
C11_PublicAddressUnchanged ==
    resolver.pc = "returned"
        => /\ ~StartsWithGs(resolver.gsUrl)
                => resolver.result = resolver.gsUrl /\ resolver.storageCalls = 0
           /\ resolver.round >= 2
                => resolver.result = resolver.previous /\ resolver.storageCalls = 0

C11_Witness ==
    /\ resolver.pc = "returned"
    /\ resolver.round = 2
    /\ resolver.previous = <<"https://", "storage.googleapis.com", "/", "bkt", "/",
                             "up", "%2F", "my%20pic.jpg">>
    /\ resolver.result = resolver.previous
    /\ storage.public

-----------------------------------------------------------------------------
(* C12 *)

\* the document the handler has handed to the audit write it is awaiting
PendingDocuments ==
    CASE run.pc = "logAlert" ->
           {AlertRecord(event.data, run.ownerId, run.detectedPlate, run.imageUrl,
                        run.confidence)}
      [] run.pc = "logUnregistered" ->
           {UnregisteredPlateRecord(event.data, run.detectedPlate, run.confidence)}
      [] run.pc = "logFailed" -> {FailedDetectionRecord(event.data, run.error)}
      [] OTHER -> {}

Stored(store) == {store[i] : i \in 1..Len(store)}

\* C12: in every audit record the run writes (stored, or handed to the write
\* being awaited) and in the notification payload, chargerId, location and
\* reportedBy hold a string, never undefined, also when the report omits them.
C12_SentinelInEveryRecord ==
    /\ \A d \in Stored(alerts) \cup Stored(unregisteredPlates) :
         d.chargerId # Undefined /\ d.location # Undefined /\ d.reportedBy # Undefined
    /\ \A d \in Stored(failedDetections) :
         d.chargerId # Undefined /\ d.location # Undefined
    /\ \A m \in Stored(sent) :
         m.data.chargerId # Undefined /\ m.data.location # Undefined
    /\ \A d \in PendingDocuments :
         /\ d.chargerId # Undefined /\ d.location # Undefined
         /\ run.pc # "logFailed" => d.reportedBy # Undefined

-----------------------------------------------------------------------------
(* C13 *)

LowerCase == {"a", "b", "c"}

\* uppercase, no whitespace
Canonical(s) == \A i \in 1..Len(s) : s[i] \notin Whitespace /\ s[i] \notin LowerCase

\* C13: whatever savePlate calls and pipeline steps have happened, every plate
\* stored in the registry, the plate the registry is queried with, and every
\* plate written to an audit record or a message is uppercase without
\* whitespace.
C13_PlatesAreCanonical ==
    /\ \A u \in Users : userPlates[u] # NoDoc => Canonical(userPlates[u].plate)
    /\ run.detectedPlate # UndefinedSeq => Canonical(run.detectedPlate)
    /\ \A d \in Stored(alerts) : Canonical(d.plate) /\ Canonical(d.recipientPlate)
    /\ \A d \in Stored(unregisteredPlates) : Canonical(d.plate)
    /\ \A m \in Stored(sent) : Canonical(m.data.plate)

C13_Witness ==
    /\ Done
    /\ userPlates["U1"] # NoDoc /\ userPlates["U1"].plate = <<"C">>
    /\ userPlates["U2"] # NoDoc /\ userPlates["U2"].plate = <<"A", "B", "1">>
    /\ Len(alerts) = 1 /\ alerts[1].plate = <<"A", "B", "1">>
    /\ run.results[1].plate = <<"a", "b", " ", "1">>

-----------------------------------------------------------------------------
(* C14 *)

CallReturned == callable.pc = "returned"

CallRejected == CallReturned /\ callable.reply = NoReply

NothingChangedByCall ==
    /\ subscriptions = callable.before.subscriptions
    /\ topicMembers = callable.before.topicMembers

\* C14: manageChargerSubscription returns { status, message, topic } on
\* success, throws "unauthenticated" for a caller without auth, and throws
\* "invalid-argument" when token or action is missing or when action is
\* neither "subscribe" nor "unsubscribe"; in these rejected cases topic
\* membership and the SubscriptionRecord are as before the call.
C14_ReplyOrTypedError ==
    CallReturned
        => /\ ~CallRejected
                => /\ callable.reply.status = "success"
                   /\ callable.reply.topic = "charger_alerts"
                   /\ callable.code = "none"
           /\ callable.auth = Undefined
                => callable.code = "unauthenticated" /\ NothingChangedByCall
           /\ (callable.auth # Undefined
               /\ (callable.token = Undefined \/ callable.action = Undefined
                   \/ callable.action \notin {"subscribe", "unsubscribe"}))
                => callable.code = "invalid-argument" /\ NothingChangedByCall

-----------------------------------------------------------------------------
(* C20 *)

\* C20: between calls of manageChargerSubscription by one user, whichever of
\* their external calls failed, the user's SubscriptionRecord has active =
\* true exactly when the token stored in it is subscribed to charger_alerts.
C20_ActiveMatchesMembership ==
    callable.pc \in {"idle", "returned"}
        => \A u \in Callers :
             subscriptions[u].exists
                => (subscriptions[u].active <=> subscriptions[u].token \in topicMembers)

\* a state reached by a call that succeeded: unsubscribe with the first token
\* after a subscribe with the second
C20_SecondTokenStillSubscribed ==
    ~ /\ CallReturned /\ callable.reply = Success("Unsubscribed from alerts")
      /\ callable.token = "T1"
      /\ subscriptions["U1"].token = "T2" /\ ~subscriptions["U1"].active
      /\ "T2" \in topicMembers

-----------------------------------------------------------------------------
(* C15 *)

\* the alerts write has been issued
AlertWriteIssued == run.pc = "logAlert" \/ run.errorAt = "logAlert" \/ Len(alerts) >= 1

\* C15: within a run the external steps follow one another without overlap:
\* the recognition call starts only once a gs:// address is resolved, the
\* registry read only once the recognition call has returned candidates, the
\* topic send only once the registry read has returned an owner, the alerts
\* write only once the send has been attempted (and has returned); while one
\* call is awaited none of the later ones has been issued.
C15_StepsInSequence ==
    /\ (calls.recognition >= 1 /\ StartsWithGs(event.data.imageUrl))
         => /\ calls.storage = 2 /\ storage.exists /\ storage.public
            /\ run.imageUrl = PublicUrl(event.data.imageUrl)
    /\ calls.registry >= 1
         => calls.recognition = 1 /\ run.response.ok /\ Len(run.results) >= 1
    /\ calls.send >= 1
         => /\ calls.registry = 1 /\ Len(run.queried) = 1
            /\ run.ownerId = run.queried[1].userId
    /\ AlertWriteIssued => calls.send = 1 /\ Len(sent) = 1
    /\ run.pc \in {"exists", "makePublic"}
         => calls.recognition = 0 /\ calls.registry = 0 /\ calls.send = 0 /\ calls.write = 0
    /\ run.pc = "recognize" => calls.registry = 0 /\ calls.send = 0 /\ calls.write = 0
    /\ run.pc = "lookup" => calls.send = 0 /\ calls.write = 0
    /\ run.pc = "send" => calls.write = 0

C15_Witness ==
    /\ Done /\ run.outcome = "Logged"
    /\ StartsWithGs(event.data.imageUrl)
    /\ calls = [storage |-> 2, recognition |-> 1, registry |-> 1, send |-> 1, write |-> 1]

-----------------------------------------------------------------------------
(* C16 *)

\* C16: in a run the recognition-service call, the registry read and the
\* topic send are each made at most once; a step that failed is not made
\* again.
C16_AtMostOnceNoRetry ==
    /\ calls.recognition <= 1
    /\ calls.registry <= 1
    /\ calls.send <= 1
    /\ run.errorAt = "recognize" => calls.recognition = 1 /\ run.pc \in {"logFailed", "done"}
    /\ run.errorAt = "lookup" => calls.registry = 1 /\ run.pc \in {"logFailed", "done"}
    /\ run.errorAt = "send" => calls.send = 1 /\ run.pc \in {"logFailed", "done"}

C16_Witness ==
    /\ Done /\ run.errorAt = "send"
    /\ calls.recognition = 1 /\ calls.registry = 1 /\ calls.send = 1

-----------------------------------------------------------------------------
(* C17 *)

GsReport == event.hasData /\ StartsWithGs(event.data.imageUrl)

ResolutionRefused ==
    run.errorAt = "resolve" /\ run.error.message \in {"File does not exist", "permission denied"}

\* C17 as stated: for a gs:// address whose object does not exist or whose
\* visibility change is rejected, getPublicUrl returns no address, the run
\* calls the recognition service not at all and ends with a
\* FailedDetectionRecord.
C17_Original ==
    (Done /\ GsReport /\ ResolutionRefused)
        => /\ run.imageUrl = UndefinedSeq
           /\ calls.recognition = 0
           /\ Len(failedDetections) = 1

C17_ResolutionState ==
    GsReport
        => /\ run.pc = "makePublic" => storage.exists /\ calls.storage = 2
           /\ ~storage.exists
                => calls.recognition = 0 /\ calls.storage <= 1 /\ run.imageUrl = UndefinedSeq
           /\ calls.recognition >= 1 => storage.public /\ run.errorAt # "resolve"
           /\ run.errorAt = "resolve"
                => /\ run.imageUrl = UndefinedSeq
                   /\ calls.recognition = 0
                   /\ Len(failedDetections) <= 1
                   /\ Done => failedDetections =
                                (IF run.outcome = "Escaped" THEN << >>
                                 ELSE <<FailedDetectionRecord(event.data, run.error)>>)

\* C17 amended: for a gs:// address the object's visibility is changed only
\* after the existence check has returned true; when the object does not
\* exist or the visibility change is rejected, getPublicUrl returns no
\* address, the run makes no recognition-service call, and it ends with a
\* FailedDetectionRecord unless the failedDetections write itself fails, in
\* which case it ends with no record.
C17_ResolutionFailure ==
    /\ []C17_ResolutionState
    /\ [][storage'.public # storage.public
            => run.pc = "makePublic" /\ storage.exists /\ calls.storage = 2
               /\ storage'.public]_vars

C17_Witness ==
    /\ Done /\ GsReport /\ run.errorAt = "resolve"
    /\ run.error.message = "permission denied"
    /\ storage.exists /\ ~storage.public
    /\ Len(failedDetections) = 1 /\ calls.recognition = 0

-----------------------------------------------------------------------------
(* C18 *)

\* both deliveries of the report have been handled to the end
BothDone == other.started /\ run.pc = "done" /\ other.run.pc = "done"

\* the two invocations resolved the same address and ended alike
SameResolution == run.imageUrl = other.run.imageUrl /\ run.outcome = other.run.outcome

\* the records a store holds after both invocations, given the outcome that
\* writes to it
RecordsFor(store, outcome) ==
    IF run.outcome = outcome THEN Len(store) = 2 /\ store[1] = store[2] ELSE Len(store) = 0

\* C18 as stated: with unchanged collaborator responses a second run of the
\* same report, sequential or interleaved, resolves the same public address,
\* reaches the same outcome and adds exactly one further audit record of the
\* same kind.
C18_Original ==
    BothDone
        => /\ SameResolution
           /\ TotalRecords = 2
           /\ RecordsFor(alerts, "Logged")
           /\ RecordsFor(unregisteredPlates, "UnregisteredLogged")
           /\ Len(failedDetections) \in {0, 2}

\* C18 amended: with unchanged collaborator responses a second run of the same
\* report, sequential or interleaved, resolves the same public address and
\* reaches the same outcome; it adds one further audit record of the same kind
\* exactly when the first run wrote one, and none when the first run wrote
\* none, so two deliveries yield zero or two audit records.
C18_SafeToRerun ==
    /\ TotalRecords <= 2
    /\ BothDone
        => /\ SameResolution
           /\ run.escaped = other.run.escaped
           /\ RecordsFor(alerts, "Logged")
           /\ RecordsFor(unregisteredPlates, "UnregisteredLogged")
           /\ RecordsFor(failedDetections, "FailedLogged")
           /\ (StartsWithGs(event.data.imageUrl) /\ calls.recognition = 1)
                => run.imageUrl = PublicUrl(event.data.imageUrl)

C18_Witness ==
    /\ BothDone /\ run.outcome = "Logged"
    /\ StartsWithGs(event.data.imageUrl)
    /\ run.imageUrl = other.run.imageUrl
    /\ Len(alerts) = 2 /\ Len(sent) = 2

-----------------------------------------------------------------------------
(* C19 *)

Registered(u) == userPlates[u] # NoDoc

\* C19: after any sequence of savePlate calls by any users, no two OwnerRecords
\* hold the same plate, so the lookup limited to one result identifies a
\* unique owner.
C19_PlatesAreUnique ==
    /\ \A u, v \in Users :
         (u # v /\ Registered(u) /\ Registered(v)) => userPlates[u].plate # userPlates[v].plate
    /\ run.pc = "lookup" => Cardinality(PlateQuery(userPlates, run.detectedPlate)) = 1

====
